---- MODULE Spec2Model ----
(***************************************************************************)
(* Model of the pricing engine of the Dynamic Pricing Optimizer test       *)
(* suite (src/test/storage.test.js): CostModel, CustomerSegmentModel,      *)
(* PricingModel, ScenarioModel and the storage utilities over localStorage.*)
(*                                                                         *)
(* JavaScript numbers are modelled as signed extended rationals            *)
(* [s, n, d] (sign, numerator, denominator in lowest terms):               *)
(*   d = 0, n = 1  is +Infinity / -Infinity,                               *)
(*   d = 0, n = 0  is NaN,                                                 *)
(*   n = 0, d = 1  is +0 / -0.                                             *)
(* The operators follow IEEE-754 for the special values (NaN propagation,  *)
(* x/0, 0/0, Inf-Inf, comparisons with NaN are false, signed zero).        *)
(* Finite arithmetic is exact: binary rounding error is abstracted away,   *)
(* which is the reading "up to rounding tolerance" of the specification.   *)
(***************************************************************************)
EXTENDS Integers, Sequences, FiniteSets, TLC

VARIABLES directCosts, indirectCosts, timeCosts, targetMargin, expectedVolume,
          competitors, valueFactors, marketPosition, segments, nextId, result,
          store, clock, exported, scenarios, failing, calls

costVars == <<directCosts, indirectCosts, timeCosts, targetMargin, expectedVolume>>
segmentVars == <<segments, nextId>>
pricingVars == <<competitors, valueFactors, marketPosition, segments, nextId>>
\* store: localStorage; clock: the time new Date() reads; exported: the
\* document the caller holds from exportAllData; scenarios: ScenarioModel.scenarios
\* failing: the methods of localStorage replaced by one that throws; calls:
\* the scenario operation each tab sharing the storage is in the middle of
backendVars == <<failing, calls>>
storageVars == <<store, clock, exported, scenarios, failing, calls>>
vars == <<directCosts, indirectCosts, timeCosts, targetMargin, expectedVolume,
          competitors, valueFactors, marketPosition, segments, nextId, result,
          store, clock, exported, scenarios, failing, calls>>

(***************************************************************************)
(* Bounds of the model                                                     *)
(***************************************************************************)
MaxCosts == 2
MaxCompetitors == 2
MaxValueFactors == 2
MaxSegmentAdds == 3
MaxClock == 1

(***************************************************************************)
(* JavaScript number arithmetic                                            *)
(***************************************************************************)
RECURSIVE Gcd(_, _)
Gcd(a, b) == IF b = 0 THEN a ELSE Gcd(b, a % b)

Abs(a) == IF a < 0 THEN -a ELSE a

NaN == [s |-> 1, n |-> 0, d |-> 0]
Infinity == [s |-> 1, n |-> 1, d |-> 0]

Mk(s, n, d) ==
    IF n = 0 /\ d = 0 THEN NaN
    ELSE IF d = 0 THEN [s |-> s, n |-> 1, d |-> 0]
    ELSE IF n = 0 THEN [s |-> s, n |-> 0, d |-> 1]
    ELSE LET g == Gcd(n, d) IN [s |-> s, n |-> n \div g, d |-> d \div g]

R(n, d) == Mk(1, n, d)
I(n) == Mk(1, n, 1)

IsNaN(x) == x.n = 0 /\ x.d = 0
IsFinite(x) == x.d # 0
IsZero(x) == x.n = 0 /\ x.d # 0

Neg(x) == IF IsNaN(x) THEN NaN ELSE [x EXCEPT !.s = -x.s]

Mul(x, y) ==
    IF IsNaN(x) \/ IsNaN(y) THEN NaN
    ELSE Mk(x.s * y.s, x.n * y.n, x.d * y.d)

Recip(x) == [s |-> x.s, n |-> x.d, d |-> x.n]

Div(x, y) == Mul(x, Recip(y))

Add(x, y) ==
    IF IsNaN(x) \/ IsNaN(y) THEN NaN
    ELSE IF x.d = 0 /\ y.d = 0 THEN (IF x.s = y.s THEN x ELSE NaN)
    ELSE IF x.d = 0 THEN x
    ELSE IF y.d = 0 THEN y
    ELSE LET a == x.s * x.n * y.d + y.s * y.n * x.d
         IN IF a = 0
            THEN [s |-> IF x.s = -1 /\ y.s = -1 THEN -1 ELSE 1, n |-> 0, d |-> 1]
            ELSE Mk(IF a < 0 THEN -1 ELSE 1, Abs(a), x.d * y.d)

Sub(x, y) == Add(x, Neg(y))

\* x < y of JavaScript: false when either side is NaN, -0 equals +0
Lt(x, y) ==
    /\ ~IsNaN(x)
    /\ ~IsNaN(y)
    /\ IF x.d = 0 /\ y.d = 0 THEN x.s < y.s
       ELSE IF x.d = 0 THEN x.s = -1
       ELSE IF y.d = 0 THEN y.s = 1
       ELSE x.s * x.n * y.d < y.s * y.n * x.d

\* x <= y of JavaScript
Leq(x, y) == ~IsNaN(x) /\ ~IsNaN(y) /\ ~Lt(y, x)

\* x === y of JavaScript on numbers
NumEq(x, y) == Leq(x, y) /\ Leq(y, x)

MathMax(x, y) ==
    IF IsNaN(x) \/ IsNaN(y) THEN NaN
    ELSE IF Lt(x, y) THEN y
    ELSE IF Lt(y, x) THEN x
    ELSE IF IsZero(x) /\ x.s # y.s THEN [s |-> 1, n |-> 0, d |-> 1]
    ELSE x

\* Math.round: nearest integer, halves towards +Infinity, keeps the sign of zero
MathRound(x) ==
    IF ~IsFinite(x) THEN x
    ELSE LET r == (2 * x.s * x.n + x.d) \div (2 * x.d)
         IN IF r = 0 THEN [s |-> x.s, n |-> 0, d |-> 1]
            ELSE Mk(IF r < 0 THEN -1 ELSE 1, Abs(r), 1)

(***************************************************************************)
(* Arguments as the caller passes them, and the coercion Number(arg)       *)
(***************************************************************************)
NumArg(x) == [t |-> "number", str |-> "", v |-> x]
StrArg(str) == [t |-> "string", str |-> str, v |-> I(0)]

\* Number(): numbers are kept, numeric strings parse, other strings give NaN
Number(arg) ==
    IF arg.t = "number" THEN arg.v
    ELSE IF arg.str = "" THEN I(0)
    ELSE IF arg.str = "50" THEN I(50)
    ELSE NaN

DirectAmountInputs == {NumArg(I(50)), StrArg("abc")}
IndirectInputs == {[amount |-> NumArg(I(2000)), period |-> "month"],
                   [amount |-> NumArg(I(2400)), period |-> "year"],
                   [amount |-> StrArg("abc"), period |-> "month"]}
TimeInputs == {[rate |-> NumArg(I(75)), hours |-> NumArg(I(8))],
               [rate |-> StrArg("abc"), hours |-> NumArg(I(8))]}
MarginInputs == {NumArg(I(0)), NumArg(R(3, 10)), NumArg(R(1, 2)), NumArg(I(1))}
VolumeInputs == {NumArg(I(20)), NumArg(I(0))}

(***************************************************************************)
(* CostModel                                                               *)
(***************************************************************************)
Ret(op, ret, arg) == [op |-> op, ret |-> ret, arg |-> arg]

CostModelInit ==
    /\ directCosts = <<>>
    /\ indirectCosts = <<>>
    /\ timeCosts = <<>>
    /\ targetMargin = R(3, 10)
    /\ expectedVolume = I(100)

addDirectCost(name, amount, unit) ==
    /\ Len(directCosts) < MaxCosts
    /\ directCosts' = Append(directCosts,
                             [name |-> name, amount |-> Number(amount), unit |-> unit])
    /\ result' = Ret("addDirectCost", "true", "")
    /\ UNCHANGED <<indirectCosts, timeCosts, targetMargin, expectedVolume>>
    /\ UNCHANGED pricingVars
    /\ UNCHANGED storageVars

addIndirectCost(name, amount, period) ==
    /\ Len(indirectCosts) < MaxCosts
    /\ indirectCosts' = Append(indirectCosts,
                               [name |-> name, amount |-> Number(amount), period |-> period])
    /\ result' = Ret("addIndirectCost", "true", "")
    /\ UNCHANGED <<directCosts, timeCosts, targetMargin, expectedVolume>>
    /\ UNCHANGED pricingVars
    /\ UNCHANGED storageVars

addTimeCost(name, rate, hours) ==
    /\ Len(timeCosts) < MaxCosts
    /\ timeCosts' = Append(timeCosts,
                           [name |-> name, rate |-> Number(rate), hours |-> Number(hours)])
    /\ result' = Ret("addTimeCost", "true", "")
    /\ UNCHANGED <<directCosts, indirectCosts, targetMargin, expectedVolume>>
    /\ UNCHANGED pricingVars
    /\ UNCHANGED storageVars

setTargetMargin(margin) ==
    /\ targetMargin' = Number(margin)
    /\ result' = Ret("setTargetMargin", "undefined", "")
    /\ UNCHANGED <<directCosts, indirectCosts, timeCosts, expectedVolume>>
    /\ UNCHANGED pricingVars
    /\ UNCHANGED storageVars

setExpectedVolume(volume) ==
    /\ expectedVolume' = Number(volume)
    /\ result' = Ret("setExpectedVolume", "undefined", "")
    /\ UNCHANGED <<directCosts, indirectCosts, timeCosts, targetMargin>>
    /\ UNCHANGED pricingVars
    /\ UNCHANGED storageVars

\* Array.prototype.reduce((total, x) => total + f(x), 0), left to right
RECURSIVE Reduce(_, _, _, _)
Reduce(f(_), seq, i, total) ==
    IF i > Len(seq) THEN total ELSE Reduce(f, seq, i + 1, Add(total, f(seq[i])))

DirectAmount(cost) == cost.amount
calculateTotalDirectCost == Reduce(DirectAmount, directCosts, 1, I(0))

TimeAmount(cost) == Mul(cost.rate, cost.hours)
calculateTotalTimeCost == Reduce(TimeAmount, timeCosts, 1, I(0))

\* faulty variant: a yearly cost is not brought to monthly terms
monthlyCost_NoYear(cost) == cost.amount

monthlyCost(cost) == IF cost.period = "year" THEN Div(cost.amount, I(12)) ELSE cost.amount
monthlyIndirectCosts == Reduce(monthlyCost, indirectCosts, 1, I(0))

calculateAllocatedIndirectCost == Div(monthlyIndirectCosts, expectedVolume)

calculateTotalCostPerUnit ==
    Add(Add(calculateTotalDirectCost, calculateTotalTimeCost), calculateAllocatedIndirectCost)

\* faulty variant: markup on cost instead of margin on price
calculateMinimumViablePrice_Markup ==
    Mul(calculateTotalCostPerUnit, Add(I(1), targetMargin))

calculateMinimumViablePrice ==
    Div(calculateTotalCostPerUnit, Sub(I(1), targetMargin))

calculateBreakEvenPrice == calculateTotalCostPerUnit

\* faulty variant: strict comparison, a price equal to the cost is let through
calculateBreakEvenVolume_Strict(price) ==
    IF Lt(price, calculateTotalCostPerUnit) THEN Infinity
    ELSE Div(monthlyIndirectCosts,
             Sub(price, Add(calculateTotalDirectCost, calculateTotalTimeCost)))

calculateBreakEvenVolume(price) ==
    IF Leq(price, calculateTotalCostPerUnit) THEN Infinity
    ELSE Div(monthlyIndirectCosts,
             Sub(price, Add(calculateTotalDirectCost, calculateTotalTimeCost)))

calculateMarginAtPrice(price) ==
    Div(Sub(price, calculateTotalCostPerUnit), price)

(***************************************************************************)
(* CustomerSegmentModel                                                    *)
(***************************************************************************)
CustomerSegmentModelInit ==
    /\ segments = <<>>
    /\ nextId = 1

SegmentSize(seg) == seg.size
SegmentWeighted(seg) == Mul(seg.priceElasticity, seg.size)

\* `seg_${n}`
SegId(n) == <<"seg_1", "seg_2", "seg_3", "seg_4", "seg_5", "seg_6">>[n]

SegmentFields == {"id", "name", "size", "priceElasticity", "description"}

addSegment(name, size, elasticity, description) ==
    /\ nextId <= MaxSegmentAdds
    /\ nextId' = nextId + 1
    /\ segments' = Append(segments,
                          [id |-> SegId(nextId), name |-> name, size |-> Number(size),
                           priceElasticity |-> elasticity, description |-> description])
    /\ result' = Ret("addSegment", SegId(nextId), "")
    /\ UNCHANGED <<competitors, valueFactors, marketPosition>>
    /\ UNCHANGED costVars
    /\ UNCHANGED storageVars

\* this.segments.findIndex(s => s.id === id), 0 when there is none
findIndex(id) ==
    IF \E i \in DOMAIN segments : segments[i].id = id
    THEN CHOOSE i \in DOMAIN segments :
            /\ segments[i].id = id
            /\ \A j \in DOMAIN segments : segments[j].id = id => i <= j
    ELSE 0

\* { ...segment, ...segmentData }: segmentData is given by the names of its
\* fields and their values
Merge(segment, segmentData) ==
    LET pick(f) == IF f \in segmentData.fields THEN segmentData.values[f] ELSE segment[f]
    IN [id |-> pick("id"), name |-> pick("name"), size |-> pick("size"),
        priceElasticity |-> pick("priceElasticity"), description |-> pick("description")]

\* faulty variant: the segment is replaced by the data instead of merged
updateSegment_Replace(id, segmentData) ==
    LET index == findIndex(id)
    IN /\ IF index > 0
          THEN /\ segments' = [segments EXCEPT ![index] = segmentData.values]
               /\ result' = Ret("updateSegment", "true", id)
          ELSE /\ segments' = segments
               /\ result' = Ret("updateSegment", "false", id)
       /\ UNCHANGED <<competitors, valueFactors, marketPosition, nextId>>
       /\ UNCHANGED costVars
       /\ UNCHANGED storageVars

updateSegment(id, segmentData) ==
    LET index == findIndex(id)
    IN /\ IF index > 0
          THEN /\ segments' = [segments EXCEPT ![index] = Merge(@, segmentData)]
               /\ result' = Ret("updateSegment", "true", id)
          ELSE /\ segments' = segments
               /\ result' = Ret("updateSegment", "false", id)
       /\ UNCHANGED <<competitors, valueFactors, marketPosition, nextId>>
       /\ UNCHANGED costVars
       /\ UNCHANGED storageVars

\* this.segments.splice(index, 1)
Splice(seq, index) ==
    [i \in 1..(Len(seq) - 1) |-> IF i < index THEN seq[i] ELSE seq[i + 1]]

removeSegment(id) ==
    LET index == findIndex(id)
    IN /\ IF index > 0
          THEN /\ segments' = Splice(segments, index)
               /\ result' = Ret("removeSegment", "true", id)
          ELSE /\ segments' = segments
               /\ result' = Ret("removeSegment", "false", id)
       /\ UNCHANGED <<competitors, valueFactors, marketPosition, nextId>>
       /\ UNCHANGED costVars
       /\ UNCHANGED storageVars

\* faulty variant: the plain mean of the elasticities
calculateWeightedElasticity_Unweighted ==
    IF Len(segments) = 0 THEN Neg(R(1, 2))
    ELSE Div(Reduce(SegmentWeighted, segments, 1, I(0)), I(Len(segments)))

calculateWeightedElasticity ==
    IF Len(segments) = 0 THEN Neg(R(1, 2))
    ELSE Div(Reduce(SegmentWeighted, segments, 1, I(0)),
             Reduce(SegmentSize, segments, 1, I(0)))

(***************************************************************************)
(* PricingModel                                                            *)
(***************************************************************************)
PricingModelInit ==
    /\ competitors = <<>>
    /\ valueFactors = <<>>
    /\ CustomerSegmentModelInit
    /\ marketPosition = "mid-market"

\* attributes: the entries of the object, in insertion order
AttributeValue(entry) == entry.value

calculateOverallValue(attributes) ==
    IF Len(attributes) = 0 THEN I(5)
    ELSE Div(Reduce(AttributeValue, attributes, 1, I(0)), I(Len(attributes)))

addCompetitor(name, price, attributes) ==
    /\ Len(competitors) < MaxCompetitors
    /\ competitors' = Append(competitors,
                             [name |-> name, price |-> Number(price),
                              attributes |-> attributes,
                              overallValue |-> calculateOverallValue(attributes)])
    /\ result' = Ret("addCompetitor", "undefined", "")
    /\ UNCHANGED <<valueFactors, marketPosition, segments, nextId>>
    /\ UNCHANGED costVars
    /\ UNCHANGED storageVars

addValueFactor(name, importance, score) ==
    /\ Len(valueFactors) < MaxValueFactors
    /\ valueFactors' = Append(valueFactors,
                              [name |-> name, importance |-> Number(importance),
                               score |-> Number(score)])
    /\ result' = Ret("addValueFactor", "undefined", "")
    /\ UNCHANGED <<competitors, marketPosition, segments, nextId>>
    /\ UNCHANGED costVars
    /\ UNCHANGED storageVars

MarketPositions == {"budget", "mid-market", "premium"}

\* faulty variant: the position is stored without being checked
setMarketPosition_Unchecked(position) ==
    /\ marketPosition' = position
    /\ result' = Ret("setMarketPosition", "undefined", position)
    /\ UNCHANGED <<competitors, valueFactors, segments, nextId>>
    /\ UNCHANGED costVars
    /\ UNCHANGED storageVars

setMarketPosition(position) ==
    /\ IF position \in MarketPositions
       THEN /\ marketPosition' = position
            /\ result' = Ret("setMarketPosition", "undefined", position)
       ELSE /\ marketPosition' = marketPosition
            /\ result' = Ret("setMarketPosition", "throw", position)
    /\ UNCHANGED <<competitors, valueFactors, segments, nextId>>
    /\ UNCHANGED costVars
    /\ UNCHANGED storageVars

\* faulty variant: the offset of 0.5 is left out
ScaleToElasticity_NoOffset(priceElasticity) ==
    Neg(Mul(Div(priceElasticity, I(10)), R(95, 10)))

\* the 1-10 scale of the form as an elasticity
ScaleToElasticity(priceElasticity) ==
    Neg(Add(Mul(Div(priceElasticity, I(10)), R(95, 10)), R(1, 2)))

\* PricingModel.addSegment
PricingModel_addSegment(name, size, priceElasticity, description) ==
    addSegment(name, size, ScaleToElasticity(priceElasticity), description)

CostPlusMultipliers ==
    [budget |-> R(9, 10), mid_market |-> I(1), premium |-> R(6, 5)]
CompetitorMultipliers ==
    [budget |-> R(17, 20), mid_market |-> I(1), premium |-> R(5, 4)]
ValueMultipliers ==
    [budget |-> R(9, 10), mid_market |-> I(1), premium |-> R(23, 20)]

\* positionMultipliers[this.marketPosition]
Lookup(table, position) ==
    IF position = "budget" THEN table.budget
    ELSE IF position = "mid-market" THEN table.mid_market
    ELSE IF position = "premium" THEN table.premium
    ELSE NaN

calculateCostPlusPrice(marginMultiplier) ==
    Mul(Mul(calculateMinimumViablePrice, Lookup(CostPlusMultipliers, marketPosition)),
        marginMultiplier)

CompetitorPrice(competitor) == competitor.price
CompetitorValue(competitor) == competitor.overallValue
avgCompetitorPrice ==
    Div(Reduce(CompetitorPrice, competitors, 1, I(0)), I(Len(competitors)))
avgCompetitorValue ==
    Div(Reduce(CompetitorValue, competitors, 1, I(0)), I(Len(competitors)))

calculateCompetitorIndexedPrice ==
    IF Len(competitors) = 0 THEN calculateCostPlusPrice(I(1))
    ELSE MathMax(Mul(avgCompetitorPrice, Lookup(CompetitorMultipliers, marketPosition)),
                 calculateMinimumViablePrice)

FactorWeighted(factor) == Mul(factor.importance, factor.score)
FactorImportance(factor) == factor.importance

valueScore ==
    Div(Reduce(FactorWeighted, valueFactors, 1, I(0)),
        Reduce(FactorImportance, valueFactors, 1, I(0)))

marketValueToPrice == Div(avgCompetitorValue, avgCompetitorPrice)

ValueBasedPriceOfMarket ==
    MathMax(Mul(Div(valueScore, marketValueToPrice),
                Lookup(ValueMultipliers, marketPosition)),
            calculateMinimumViablePrice)

\* faulty variant: falls back only when both lists are empty
calculateValueBasedPrice_BothEmpty ==
    IF Len(competitors) = 0 /\ Len(valueFactors) = 0 THEN calculateCostPlusPrice(I(1))
    ELSE ValueBasedPriceOfMarket

calculateValueBasedPrice ==
    IF Len(competitors) = 0 \/ Len(valueFactors) = 0 THEN calculateCostPlusPrice(I(1))
    ELSE ValueBasedPriceOfMarket

Strategies == {"cost-plus", "competitor", "value", "optimal"}

\* the weighted average of the 'optimal' strategy
OptimalBlend ==
    Add(Add(Mul(calculateCostPlusPrice(I(1)), R(4, 10)),
            Mul(calculateCompetitorIndexedPrice, R(3, 10))),
        Mul(calculateValueBasedPrice, R(3, 10)))

StrategyPrice(strategy) ==
    IF strategy = "cost-plus" THEN calculateCostPlusPrice(I(1))
    ELSE IF strategy = "competitor" THEN calculateCompetitorIndexedPrice
    ELSE IF strategy = "value" THEN calculateValueBasedPrice
    ELSE OptimalBlend

StrategyConfidence(strategy) ==
    IF strategy = "cost-plus" THEN R(8, 10)
    ELSE IF strategy = "competitor"
         THEN (IF Len(competitors) > 2 THEN R(7, 10) ELSE R(5, 10))
    ELSE IF strategy = "value"
         THEN (IF Len(competitors) > 0 /\ Len(valueFactors) > 2 THEN R(75, 100) ELSE R(4, 10))
    ELSE R(65, 100)

\* the explanation template and the state it interpolates
StrategyExplanation(strategy) ==
    IF strategy = "cost-plus"
    THEN [text |-> "cost-plus", position |-> marketPosition,
          margin |-> Mul(targetMargin, I(100))]
    ELSE IF strategy = "competitor"
    THEN [text |-> "competitor", position |-> marketPosition, margin |-> I(0)]
    ELSE IF strategy = "value"
    THEN [text |-> "value", position |-> "", margin |-> I(0)]
    ELSE [text |-> "optimal", position |-> "", margin |-> I(0)]

\* Math.round(price * 100) / 100
RoundToCents(price) == Div(MathRound(Mul(price, I(100))), I(100))

\* faulty variant: margin and break-even volume taken at the rounded price
getPriceRecommendation_AtRoundedPrice(strategy) ==
    LET price == RoundToCents(StrategyPrice(strategy))
    IN [price |-> price,
        explanation |-> StrategyExplanation(strategy),
        confidenceLevel |-> StrategyConfidence(strategy),
        margin |-> calculateMarginAtPrice(price),
        breakEvenVolume |-> calculateBreakEvenVolume(price)]

getPriceRecommendation(strategy) ==
    LET price == StrategyPrice(strategy)
    IN [price |-> RoundToCents(price),
        explanation |-> StrategyExplanation(strategy),
        confidenceLevel |-> StrategyConfidence(strategy),
        margin |-> calculateMarginAtPrice(price),
        breakEvenVolume |-> calculateBreakEvenVolume(price)]

\* faulty variant: the entry 'optimal' is a copy of the cost-plus entry
getAllPriceRecommendations_OptimalCopied ==
    [strategy \in Strategies |->
        IF strategy = "optimal" THEN getPriceRecommendation("cost-plus")
        ELSE getPriceRecommendation(strategy)]

getAllPriceRecommendations ==
    [strategy \in Strategies |->
        IF strategy = "cost-plus" THEN getPriceRecommendation("cost-plus")
        ELSE IF strategy = "competitor" THEN getPriceRecommendation("competitor")
        ELSE IF strategy = "value" THEN getPriceRecommendation("value")
        ELSE getPriceRecommendation("optimal")]

\* a call of getPriceRecommendation(strategy): it assigns to locals only
Call_getPriceRecommendation(strategy) ==
    /\ result' = Ret("getPriceRecommendation", "object", strategy)
    /\ UNCHANGED costVars
    /\ UNCHANGED pricingVars
    /\ UNCHANGED storageVars

\* a call of getAllPriceRecommendations()
Call_getAllPriceRecommendations ==
    /\ result' = Ret("getAllPriceRecommendations", "object", "")
    /\ UNCHANGED costVars
    /\ UNCHANGED pricingVars
    /\ UNCHANGED storageVars

CompetitorInputs ==
    {[price |-> NumArg(I(1000)), attributes |-> <<>>],
     [price |-> NumArg(I(1200)),
      attributes |-> <<[key |-> "quality", value |-> I(8)],
                       [key |-> "support", value |-> I(6)]>>],
     [price |-> NumArg(I(0)), attributes |-> <<[key |-> "quality", value |-> I(0)]>>]}
ValueFactorInputs ==
    {[importance |-> NumArg(I(8)), score |-> NumArg(I(9))],
     [importance |-> NumArg(I(0)), score |-> NumArg(I(5))]}
PositionInputs == MarketPositions \cup {"luxury"}

(***************************************************************************)
(* JavaScript values that are stored, serialized and parsed                *)
(*                                                                         *)
(* A value is a record [t, n, s, o]: its type, its number, its string and, *)
(* for an object, its own entries <<[key, value], ...>> in insertion order. *)
(***************************************************************************)
JUndefined == [t |-> "undefined", n |-> I(0), s |-> "", o |-> <<>>]
JNull == [t |-> "null", n |-> I(0), s |-> "", o |-> <<>>]
JNum(x) == [t |-> "number", n |-> x, s |-> "", o |-> <<>>]
JStr(str) == [t |-> "string", n |-> I(0), s |-> str, o |-> <<>>]
JBool(b) == [t |-> "boolean", n |-> I(0), s |-> IF b THEN "true" ELSE "false", o |-> <<>>]
JObj(entries) == [t |-> "object", n |-> I(0), s |-> "", o |-> entries]
\* a function inherited from Object.prototype
JFunction(name) == [t |-> "function", n |-> I(0), s |-> name, o |-> <<>>]
Entry(key, value) == [key |-> key, value |-> value]

\* properties every object inherits from Object.prototype
PrototypeNames == {"constructor", "toString"}

\* the boolean a value converts to
Truthy(v) ==
    IF v.t \in {"undefined", "null"} THEN FALSE
    ELSE IF v.t = "number" THEN ~IsNaN(v.n) /\ ~IsZero(v.n)
    ELSE IF v.t = "string" THEN v.s # ""
    ELSE IF v.t = "boolean" THEN v.s = "true"
    ELSE TRUE

HasOwn(obj, key) == obj.t = "object" /\ \E i \in DOMAIN obj.o : obj.o[i].key = key
IndexOfKey(obj, key) == CHOOSE i \in DOMAIN obj.o : obj.o[i].key = key

\* obj[key] throws a TypeError on null and undefined
Nullish(v) == v.t \in {"undefined", "null"}

\* obj[key]: the own property, else the inherited one, else undefined
Get(obj, key) ==
    IF HasOwn(obj, key) THEN obj.o[IndexOfKey(obj, key)].value
    ELSE IF ~Nullish(obj) /\ key \in PrototypeNames THEN JFunction(key)
    ELSE JUndefined

\* obj?.[key]
GetOptional(obj, key) == IF Nullish(obj) THEN JUndefined ELSE Get(obj, key)

\* obj[key] = value: on an object sets the own property, on a primitive does nothing
Put(obj, key, value) ==
    IF obj.t # "object" THEN obj
    ELSE IF HasOwn(obj, key)
    THEN [obj EXCEPT !.o = [@ EXCEPT ![IndexOfKey(obj, key)] = Entry(key, value)]]
    ELSE [obj EXCEPT !.o = Append(@, Entry(key, value))]

\* delete obj[key]
Delete(obj, key) ==
    IF obj.t # "object" THEN obj
    ELSE LET keep(e) == e.key # key IN [obj EXCEPT !.o = SelectSeq(@, keep)]

\* { ...data }: the own entries of an object; a number, a boolean, null and
\* undefined have none
Spread(data) == IF data.t = "object" THEN JObj(data.o) ELSE JObj(<<>>)

\* JSON.stringify gives no text for undefined and for a function
Serializable(v) == v.t \notin {"undefined", "function"}

\* JSON.parse(JSON.stringify(v)): NaN and the infinities become null, -0
\* becomes 0, entries that are undefined or functions are left out
RECURSIVE Jsonify(_)
Jsonify(v) ==
    IF v.t = "number"
    THEN (IF ~IsFinite(v.n) THEN JNull ELSE IF IsZero(v.n) THEN JNum(I(0)) ELSE v)
    ELSE IF v.t = "object"
    THEN LET kept == SelectSeq(v.o, LAMBDA e : Serializable(e.value))
         IN JObj([i \in DOMAIN kept |-> Entry(kept[i].key, Jsonify(kept[i].value))])
    ELSE v

(***************************************************************************)
(* Storage utilities over localStorage                                     *)
(***************************************************************************)
STORAGE_KEYS ==
    JObj(<<Entry("COST_ANALYSIS", JStr("dpo_cost_analysis")),
           Entry("PRICING_STRATEGY", JStr("dpo_pricing_strategy")),
           Entry("BUSINESS_PROFILE", JStr("dpo_business_profile")),
           Entry("COMPETITORS", JStr("dpo_competitors")),
           Entry("VALUE_FACTORS", JStr("dpo_value_factors")),
           Entry("VALUE_PROPOSITION", JStr("dpo_value_proposition")),
           Entry("VALUE_MAP", JStr("dpo_value_map")),
           Entry("COMMUNICATION", JStr("dpo_communication")),
           Entry("SETTINGS", JStr("dpo_settings")),
           Entry("SCENARIOS", JStr("dpo_scenarios"))>>)

CategoryNames == {STORAGE_KEYS.o[i].key : i \in DOMAIN STORAGE_KEYS.o}
AppStorageKeys == {STORAGE_KEYS.o[i].value.s : i \in DOMAIN STORAGE_KEYS.o}

\* String(key): the property name a value used as a key becomes
KeyString(v) ==
    IF v.t = "string" THEN v.s
    ELSE IF v.s = "constructor" THEN "function Object() { [native code] }"
    ELSE "function toString() { [native code] }"

ForeignStorageKeys ==
    {"test_key", "function Object() { [native code] }",
     "function toString() { [native code] }"}
StorageKeyUniverse == AppStorageKeys \cup ForeignStorageKeys

\* no item under the key
NoItem == [t |-> "none", n |-> I(0), s |-> "", o |-> <<>>]

\* a text that JSON.parse rejects
Unparsable == [t |-> "unparsable", n |-> I(0), s |-> "{not valid json}", o |-> <<>>]

\* the methods of localStorage
StorageMethods == {"getItem", "setItem", "removeItem"}

\* the tabs that share the storage, and a tab that is in no operation
Tabs == {"tab1", "tab2"}
\* pc: where the operation is; loaded: the mapping it read; local: the
\* mapping it is about to write; scenario: the stamped scenario of a save;
\* loadNo, writeNo: when it read and wrote among the operations under way
IdleCall ==
    [pc |-> "idle", op |-> "", name |-> "", scenario |-> JNull, loaded |-> JNull,
     local |-> JNull, loadNo |-> 0, writeNo |-> 0]

\* MockLocalStorage after construction with its own methods, time at its
\* origin, nothing exported, an empty ScenarioModel, no operation under way
StorageInit ==
    /\ store = [k \in StorageKeyUniverse |-> NoItem]
    /\ clock = 0
    /\ exported = NoItem
    /\ scenarios = JObj(<<>>)
    /\ failing = {}
    /\ calls = [tab \in Tabs |-> IdleCall]

\* loadFromStorage(key, defaultValue) on a given content of localStorage:
\* the default when there is no item, when getItem throws and when JSON.parse
\* throws
LoadFrom(st, key, defaultValue) ==
    IF "getItem" \in failing \/ st[key] = NoItem \/ st[key] = Unparsable
    THEN defaultValue
    ELSE st[key]
loadFromStorage(key, defaultValue) == LoadFrom(store, key, defaultValue)

\* saveToStorage(key, data) on a given content: the content afterwards, and
\* whether it returns true; false when setItem throws
SaveReturns(data) == Serializable(data) /\ "setItem" \notin failing
SaveInto(st, key, data) ==
    IF SaveReturns(data) THEN [st EXCEPT ![key] = Jsonify(data)] ELSE st

BoolString(b) == IF b THEN "true" ELSE "false"

saveToStorage(key, data) ==
    /\ store' = SaveInto(store, key, data)
    /\ result' = Ret("saveToStorage", BoolString(SaveReturns(data)), key)
    /\ UNCHANGED <<clock, exported, scenarios>>
    /\ UNCHANGED backendVars
    /\ UNCHANGED costVars
    /\ UNCHANGED pricingVars

removeFromStorage(key) ==
    /\ IF "removeItem" \in failing
       THEN /\ store' = store
            /\ result' = Ret("removeFromStorage", "false", key)
       ELSE /\ store' = [store EXCEPT ![key] = NoItem]
            /\ result' = Ret("removeFromStorage", "true", key)
    /\ UNCHANGED <<clock, exported, scenarios>>
    /\ UNCHANGED backendVars
    /\ UNCHANGED costVars
    /\ UNCHANGED pricingVars

\* faulty variant: every item is removed, as localStorage.clear() does
clearAppStorage_Everything ==
    /\ IF "removeItem" \in failing
       THEN /\ store' = store
            /\ result' = Ret("clearAppStorage", "false", "")
       ELSE /\ store' = [k \in StorageKeyUniverse |-> NoItem]
            /\ result' = Ret("clearAppStorage", "true", "")
    /\ UNCHANGED <<clock, exported, scenarios>>
    /\ UNCHANGED backendVars
    /\ UNCHANGED costVars
    /\ UNCHANGED pricingVars

clearAppStorage ==
    /\ IF "removeItem" \in failing
       THEN /\ store' = store
            /\ result' = Ret("clearAppStorage", "false", "")
       ELSE /\ store' = [k \in StorageKeyUniverse |->
                           IF k \in AppStorageKeys THEN NoItem ELSE store[k]]
            /\ result' = Ret("clearAppStorage", "true", "")
    /\ UNCHANGED <<clock, exported, scenarios>>
    /\ UNCHANGED backendVars
    /\ UNCHANGED costVars
    /\ UNCHANGED pricingVars

\* new Date().toISOString() at the current time
IsoString(t) ==
    <<"2025-03-27T00:00:00.000Z", "2025-03-27T00:00:00.001Z", "2025-03-27T00:00:00.002Z",
      "2025-03-27T00:00:00.003Z", "2025-03-27T00:00:00.004Z", "2025-03-27T00:00:00.005Z">>[t + 1]

\* time passes between two calls
Tick ==
    /\ clock < MaxClock
    /\ clock' = clock + 1
    /\ UNCHANGED <<store, exported, scenarios, result>>
    /\ UNCHANGED backendVars
    /\ UNCHANGED costVars
    /\ UNCHANGED pricingVars

\* { ...data, createdAt: new Date().toISOString() } at time t
StampedAt(data, t) == Put(Spread(data), "createdAt", JStr(IsoString(t)))
Stamped(data) == StampedAt(data, clock)

\* saveScenario(name, data) at time t on a given content: the content
\* afterwards, and whether it returns true; assigning to a property of null
\* throws
SaveScenarioInto(st, name, data, t) ==
    LET loaded == LoadFrom(st, "dpo_scenarios", JObj(<<>>))
    IN IF Nullish(loaded) THEN st
       ELSE SaveInto(st, "dpo_scenarios", Put(loaded, name, StampedAt(data, t)))
SaveScenarioReturns(st, name, data, t) ==
    LET loaded == LoadFrom(st, "dpo_scenarios", JObj(<<>>))
    IN ~Nullish(loaded) /\ SaveReturns(Put(loaded, name, StampedAt(data, t)))

saveScenario(name, data) ==
    /\ store' = SaveScenarioInto(store, name, data, clock)
    /\ result' = Ret("saveScenario", BoolString(SaveScenarioReturns(store, name, data, clock)), name)
    /\ UNCHANGED <<clock, exported, scenarios>>
    /\ UNCHANGED backendVars
    /\ UNCHANGED costVars
    /\ UNCHANGED pricingVars

\* loadScenario(name): scenarios[name] || null, null when the lookup throws
loadScenario(name) ==
    LET loaded == loadFromStorage("dpo_scenarios", JObj(<<>>))
    IN IF Nullish(loaded) THEN JNull
       ELSE IF Truthy(Get(loaded, name)) THEN Get(loaded, name)
       ELSE JNull

getAllScenarios == loadFromStorage("dpo_scenarios", JObj(<<>>))

deleteScenario(name) ==
    LET loaded == loadFromStorage("dpo_scenarios", JObj(<<>>))
    IN /\ IF Nullish(loaded) \/ ~Truthy(Get(loaded, name))
          THEN /\ store' = store
               /\ result' = Ret("deleteScenario", "false", name)
          ELSE LET updated == Delete(loaded, name)
               IN /\ store' = SaveInto(store, "dpo_scenarios", updated)
                  /\ result' = Ret("deleteScenario", BoolString(SaveReturns(updated)), name)
       /\ UNCHANGED <<clock, exported, scenarios>>
       /\ UNCHANGED backendVars
       /\ UNCHANGED costVars
       /\ UNCHANGED pricingVars

\* the document exportAllData() returns: every category with what it loads to
ExportDocument ==
    Jsonify(JObj([i \in DOMAIN STORAGE_KEYS.o |->
                    Entry(STORAGE_KEYS.o[i].key,
                          loadFromStorage(STORAGE_KEYS.o[i].value.s, JNull))]))

exportAllData ==
    /\ exported' = ExportDocument
    /\ result' = Ret("exportAllData", "string", "")
    /\ UNCHANGED <<store, clock, scenarios>>
    /\ UNCHANGED backendVars
    /\ UNCHANGED costVars
    /\ UNCHANGED pricingVars

\* Object.entries(importData).forEach(...), entry by entry from the i-th on
RECURSIVE ImportEntries(_, _, _)
ImportEntries(st, entries, i) ==
    IF i > Len(entries) THEN st
    ELSE LET key == entries[i].key
             data == entries[i].value
             storageKey == Get(STORAGE_KEYS, key)
         IN ImportEntries(IF Truthy(storageKey) /\ data.t # "null"
                          THEN SaveInto(st, KeyString(storageKey), data)
                          ELSE st,
                          entries, i + 1)

\* faulty variant: the categories before an unknown field are applied and
\* the document is then rejected
importAllData_RejectsLate(label, jsonData) ==
    /\ IF jsonData = Unparsable \/ Nullish(jsonData)
       THEN /\ store' = store
            /\ result' = Ret("importAllData", "false", label)
       ELSE /\ store' = ImportEntries(store, jsonData.o, 1)
            /\ result' = Ret("importAllData",
                             IF \E i \in DOMAIN jsonData.o :
                                   ~Truthy(Get(STORAGE_KEYS, jsonData.o[i].key))
                             THEN "false" ELSE "true",
                             label)
    /\ UNCHANGED <<clock, exported, scenarios>>
    /\ UNCHANGED backendVars
    /\ UNCHANGED costVars
    /\ UNCHANGED pricingVars

\* faulty variant: the document is parsed and nothing is written
importAllData_ParseOnly(label, jsonData) ==
    /\ store' = store
    /\ result' = Ret("importAllData",
                     IF jsonData = Unparsable \/ Nullish(jsonData) THEN "false" ELSE "true",
                     label)
    /\ UNCHANGED <<clock, exported, scenarios>>
    /\ UNCHANGED backendVars
    /\ UNCHANGED costVars
    /\ UNCHANGED pricingVars

\* importAllData(jsonData): jsonData is given by what it parses to; label
\* names the document in the result
importAllData(label, jsonData) ==
    /\ IF jsonData = Unparsable \/ Nullish(jsonData)
       THEN /\ store' = store
            /\ result' = Ret("importAllData", "false", label)
       ELSE /\ store' = ImportEntries(store, jsonData.o, 1)
            /\ result' = Ret("importAllData", "true", label)
    /\ UNCHANGED <<clock, exported, scenarios>>
    /\ UNCHANGED backendVars
    /\ UNCHANGED costVars
    /\ UNCHANGED pricingVars

(***************************************************************************)
(* The persistence backend as its callers find it                          *)
(***************************************************************************)
\* localStorage[method] = () => { throw new Error("Simulated storage error") }
simulateError(method) ==
    /\ method \notin failing
    /\ failing' = failing \cup {method}
    /\ UNCHANGED <<store, clock, exported, scenarios, calls, result>>
    /\ UNCHANGED costVars
    /\ UNCHANGED pricingVars

\* localStorage[method] = original
restoreOriginal(method) ==
    /\ method \in failing
    /\ failing' = failing \ {method}
    /\ UNCHANGED <<store, clock, exported, scenarios, calls, result>>
    /\ UNCHANGED costVars
    /\ UNCHANGED pricingVars

\* localStorage.setItem(key, text) by a writer whose text is not JSON
setItemUnparsable(key) ==
    /\ "setItem" \notin failing
    /\ store' = [store EXCEPT ![key] = Unparsable]
    /\ UNCHANGED <<clock, exported, scenarios, failing, calls, result>>
    /\ UNCHANGED costVars
    /\ UNCHANGED pricingVars

(***************************************************************************)
(* saveScenario and deleteScenario step by step, for tabs that share the   *)
(* storage: the mapping is read, changed in a local, and written           *)
(***************************************************************************)
\* the reads and writes done so far by the operations under way
CallEvents(tab) ==
    IF calls[tab].pc = "loaded" THEN 1 ELSE IF calls[tab].pc = "written" THEN 2 ELSE 0
EventCount == CallEvents("tab1") + CallEvents("tab2")

\* saveScenario up to its call of saveToStorage: the mapping is loaded and
\* the stamped scenario is put into the local
saveScenario_Load(tab, name, data) ==
    LET loaded == loadFromStorage("dpo_scenarios", JObj(<<>>))
    IN /\ calls[tab].pc = "idle"
       /\ IF Nullish(loaded)
          THEN /\ calls' = calls
               /\ result' = Ret("saveScenario", "false", name)
          ELSE /\ calls' = [calls EXCEPT ![tab] =
                              [pc |-> "loaded", op |-> "saveScenario", name |-> name,
                               scenario |-> Stamped(data), loaded |-> loaded,
                               local |-> Put(loaded, name, Stamped(data)),
                               loadNo |-> EventCount + 1, writeNo |-> 0]]
               /\ result' = result
       /\ UNCHANGED <<store, clock, exported, scenarios, failing>>
       /\ UNCHANGED costVars
       /\ UNCHANGED pricingVars

\* deleteScenario up to its call of saveToStorage: the mapping is loaded,
\* false is returned when the name is not found, else it is deleted from the
\* local
deleteScenario_Load(tab, name) ==
    LET loaded == loadFromStorage("dpo_scenarios", JObj(<<>>))
    IN /\ calls[tab].pc = "idle"
       /\ IF Nullish(loaded) \/ ~Truthy(Get(loaded, name))
          THEN /\ calls' = calls
               /\ result' = Ret("deleteScenario", "false", name)
          ELSE /\ calls' = [calls EXCEPT ![tab] =
                              [pc |-> "loaded", op |-> "deleteScenario", name |-> name,
                               scenario |-> JNull, loaded |-> loaded,
                               local |-> Delete(loaded, name),
                               loadNo |-> EventCount + 1, writeNo |-> 0]]
               /\ result' = result
       /\ UNCHANGED <<store, clock, exported, scenarios, failing>>
       /\ UNCHANGED costVars
       /\ UNCHANGED pricingVars

\* faulty variant: the local is merged into the mapping stored by then
Scenario_Write_Merging(tab) ==
    /\ calls[tab].pc = "loaded"
    /\ LET current == loadFromStorage("dpo_scenarios", JObj(<<>>))
           merged == IF calls[tab].op = "saveScenario"
                     THEN Put(current, calls[tab].name, calls[tab].scenario)
                     ELSE Delete(current, calls[tab].name)
       IN /\ store' = SaveInto(store, "dpo_scenarios", merged)
          /\ result' = Ret(calls[tab].op, BoolString(SaveReturns(merged)), calls[tab].name)
    /\ calls' = [calls EXCEPT ![tab].pc = "written", ![tab].writeNo = EventCount + 1]
    /\ UNCHANGED <<clock, exported, scenarios, failing>>
    /\ UNCHANGED costVars
    /\ UNCHANGED pricingVars

\* return saveToStorage(STORAGE_KEYS.SCENARIOS, scenarios)
Scenario_Write(tab) ==
    /\ calls[tab].pc = "loaded"
    /\ store' = SaveInto(store, "dpo_scenarios", calls[tab].local)
    /\ result' = Ret(calls[tab].op, BoolString(SaveReturns(calls[tab].local)), calls[tab].name)
    /\ calls' = [calls EXCEPT ![tab].pc = "written", ![tab].writeNo = EventCount + 1]
    /\ UNCHANGED <<clock, exported, scenarios, failing>>
    /\ UNCHANGED costVars
    /\ UNCHANGED pricingVars

\* the operations that have returned are over
Scenario_Return ==
    /\ \A tab \in Tabs : calls[tab].pc # "loaded"
    /\ \E tab \in Tabs : calls[tab].pc = "written"
    /\ calls' = [tab \in Tabs |-> IdleCall]
    /\ UNCHANGED <<store, clock, exported, scenarios, failing, result>>
    /\ UNCHANGED costVars
    /\ UNCHANGED pricingVars

(***************************************************************************)
(* ScenarioModel: scenarios held in memory                                 *)
(***************************************************************************)
ScenarioModel_saveScenario(name, data) ==
    /\ scenarios' = Put(scenarios, name, Stamped(data))
    /\ result' = Ret("ScenarioModel.saveScenario", "true", name)
    /\ UNCHANGED <<store, clock, exported>>
    /\ UNCHANGED backendVars
    /\ UNCHANGED costVars
    /\ UNCHANGED pricingVars

\* this.scenarios[name] || null
getScenario(name) ==
    IF Truthy(Get(scenarios, name)) THEN Get(scenarios, name) ELSE JNull

ScenarioModel_getAllScenarios == scenarios

ScenarioModel_deleteScenario(name) ==
    /\ IF Truthy(Get(scenarios, name))
       THEN /\ scenarios' = Delete(scenarios, name)
            /\ result' = Ret("ScenarioModel.deleteScenario", "true", name)
       ELSE /\ scenarios' = scenarios
            /\ result' = Ret("ScenarioModel.deleteScenario", "false", name)
    /\ UNCHANGED <<store, clock, exported>>
    /\ UNCHANGED backendVars
    /\ UNCHANGED costVars
    /\ UNCHANGED pricingVars

\* scenario.pricingStrategy?.priceRecommendations?.optimal?.[field] || 0
OptimalOrZero(scenario, field) ==
    LET v == GetOptional(GetOptional(GetOptional(Get(scenario, "pricingStrategy"),
                                                 "priceRecommendations"),
                                     "optimal"),
                         field)
    IN IF Truthy(v) THEN v ELSE JNum(I(0))

\* the number an operand of - converts to: a number is itself, true is 1, an
\* object, a function and text that is not numeric give NaN
ToNumber(v) ==
    IF v.t = "number" THEN v.n
    ELSE IF v.t = "boolean" THEN (IF v.s = "true" THEN I(1) ELSE I(0))
    ELSE IF v.t = "null" THEN I(0)
    ELSE NaN

\* one of the prices and margins objects of a comparison
Compared(v1, v2) ==
    JObj(<<Entry("scenario1", v1), Entry("scenario2", v2),
           Entry("difference", JNum(Sub(ToNumber(v1), ToNumber(v2))))>>)

compareScenarios(scenario1Name, scenario2Name) ==
    LET scenario1 == getScenario(scenario1Name)
        scenario2 == getScenario(scenario2Name)
    IN IF ~Truthy(scenario1) \/ ~Truthy(scenario2) THEN JNull
       ELSE JObj(<<Entry("names", JObj(<<Entry("scenario1", JStr(scenario1Name)),
                                         Entry("scenario2", JStr(scenario2Name))>>)),
                   Entry("prices", Compared(OptimalOrZero(scenario1, "price"),
                                            OptimalOrZero(scenario2, "price"))),
                   Entry("margins", Compared(OptimalOrZero(scenario1, "margin"),
                                             OptimalOrZero(scenario2, "margin")))>>)

\* a call of compareScenarios, its outcome recorded in result
ScenarioModel_compareScenarios(scenario1Name, scenario2Name) ==
    /\ result' = Ret("ScenarioModel.compareScenarios",
                     IF compareScenarios(scenario1Name, scenario2Name) = JNull
                     THEN "null" ELSE "object",
                     scenario1Name)
    /\ UNCHANGED <<store, clock, exported, scenarios>>
    /\ UNCHANGED backendVars
    /\ UNCHANGED costVars
    /\ UNCHANGED pricingVars

(***************************************************************************)
(* Specifications                                                          *)
(***************************************************************************)
Init ==
    /\ CostModelInit
    /\ PricingModelInit
    /\ StorageInit
    /\ result = Ret("constructor", "undefined", "")

CostNext ==
    \/ \E a \in DirectAmountInputs : addDirectCost("A", a, "unit")
    \/ \E c \in IndirectInputs : addIndirectCost("A", c.amount, c.period)
    \/ \E c \in TimeInputs : addTimeCost("A", c.rate, c.hours)
    \/ \E m \in MarginInputs : setTargetMargin(m)
    \/ \E v \in VolumeInputs : setExpectedVolume(v)

\* the operations of one CostModel
SpecCost == Init /\ [][CostNext]_vars

\* cost models handed to the PricingModel constructor
ExampleDirect == <<[name |-> "A", amount |-> I(50), unit |-> "unit"]>>
ExampleIndirect == <<[name |-> "A", amount |-> I(2000), period |-> "month"]>>
ExampleTime == <<[name |-> "A", rate |-> I(75), hours |-> I(8)]>>
CostModelConfigs ==
    {[directCosts |-> <<>>, indirectCosts |-> <<>>, timeCosts |-> <<>>,
      targetMargin |-> R(3, 10), expectedVolume |-> I(100)],
     [directCosts |-> ExampleDirect, indirectCosts |-> ExampleIndirect,
      timeCosts |-> ExampleTime, targetMargin |-> R(3, 10), expectedVolume |-> I(20)],
     [directCosts |-> ExampleDirect, indirectCosts |-> ExampleIndirect,
      timeCosts |-> <<>>, targetMargin |-> R(1, 2), expectedVolume |-> I(100)],
     [directCosts |-> ExampleDirect, indirectCosts |-> ExampleIndirect,
      timeCosts |-> ExampleTime, targetMargin |-> I(1), expectedVolume |-> I(20)],
     [directCosts |-> ExampleDirect, indirectCosts |-> ExampleIndirect,
      timeCosts |-> ExampleTime, targetMargin |-> R(3, 10), expectedVolume |-> I(0)]}

PricingInit ==
    /\ \E cfg \in CostModelConfigs :
          /\ directCosts = cfg.directCosts
          /\ indirectCosts = cfg.indirectCosts
          /\ timeCosts = cfg.timeCosts
          /\ targetMargin = cfg.targetMargin
          /\ expectedVolume = cfg.expectedVolume
    /\ PricingModelInit
    /\ StorageInit
    /\ result = Ret("constructor", "undefined", "")

PricingNext ==
    \/ \E c \in CompetitorInputs : addCompetitor("A", c.price, c.attributes)
    \/ \E f \in ValueFactorInputs : addValueFactor("A", f.importance, f.score)
    \/ \E p \in PositionInputs : setMarketPosition(p)

\* the operations of one PricingModel over a given CostModel
SpecPricing == PricingInit /\ [][PricingNext]_vars

RecommendationCompetitors ==
    {c \in CompetitorInputs : c.price \in {NumArg(I(1000)), NumArg(I(1200))}}

\* the scale of the form
UIScale == 1..10

\* segments added through the PricingModel with every value of the scale
ScaleNext ==
    \E scale \in UIScale : PricingModel_addSegment("A", NumArg(I(50)), I(scale), "")

SpecScale == Init /\ [][ScaleNext]_vars

\* the PricingModel and the CostModel it shares changing between the calls
\* that compute recommendations
RecommendationNext ==
    \/ setTargetMargin(NumArg(R(1, 2)))
    \/ setExpectedVolume(NumArg(I(100)))
    \/ \E c \in RecommendationCompetitors : addCompetitor("A", c.price, c.attributes)
    \/ addValueFactor("A", NumArg(I(8)), NumArg(I(9)))
    \/ \E p \in MarketPositions : setMarketPosition(p)
    \/ \E strategy \in Strategies : Call_getPriceRecommendation(strategy)
    \/ Call_getAllPriceRecommendations

SpecRecommendations == PricingInit /\ [][RecommendationNext]_vars

\* sizes are non-negative, as the callers of addSegment are required to pass
SegmentInputs ==
    {[size |-> NumArg(I(30)), elasticity |-> Neg(I(2))],
     [size |-> NumArg(I(0)), elasticity |-> Neg(I(5))]}
ScaledSegmentInputs == {[size |-> NumArg(I(50)), scale |-> I(7)]}
NoValues ==
    [id |-> "", name |-> "", size |-> I(0), priceElasticity |-> I(0), description |-> ""]
SegmentUpdateInputs ==
    {[fields |-> {"size", "description"},
      values |-> [NoValues EXCEPT !.size = I(55), !.description = "Updated"]],
     [fields |-> {"id"}, values |-> [NoValues EXCEPT !.id = "seg_1"]]}
SegmentIdInputs == {SegId(n) : n \in 1..MaxSegmentAdds}

SegmentNext ==
    \/ \E c \in SegmentInputs : addSegment("A", c.size, c.elasticity, "")
    \/ \E c \in ScaledSegmentInputs : PricingModel_addSegment("A", c.size, c.scale, "")
    \/ \E id \in SegmentIdInputs, d \in SegmentUpdateInputs : updateSegment(id, d)
    \/ \E id \in SegmentIdInputs : removeSegment(id)

\* the operations on the segments of one PricingModel
SpecSegments == Init /\ [][SegmentNext]_vars

\* scenario names: the two of the tests, and a name every object inherits
ScenarioNames == {"Basic Strategy", "Premium Strategy"}
LookupNames == ScenarioNames \cup {"constructor"}

\* payloads of the stored scenarios: the first of Test 2, and a
\* recommendation below cost that carries a createdAt of its own
Scenario1Data ==
    JObj(<<Entry("costAnalysis", JObj(<<Entry("total", JNum(I(500)))>>)),
           Entry("pricingStrategy", JObj(<<Entry("selectedStrategy", JStr("cost-plus"))>>))>>)
BelowCostData ==
    JObj(<<Entry("createdAt", JStr("2020-01-01T00:00:00.000Z")),
           Entry("breakEvenVolume", JNum(Infinity))>>)
ScenarioPayloads == {Scenario1Data, BelowCostData}

\* data saved under a category directly
CostData == JObj(<<Entry("test", JStr("cost"))>>)
CategoryData == {CostData, JNull, JUndefined}

\* import documents, each with the name it has in result
FalsyScenarioDocument ==
    JObj(<<Entry("SCENARIOS", JObj(<<Entry("Basic Strategy", JNum(I(0)))>>))>>)
NullCategoryDocument ==
    JObj(<<Entry("SETTINGS", JNull), Entry("COST_ANALYSIS", CostData)>>)
UnknownFieldDocument ==
    JObj(<<Entry("UNKNOWN", CostData), Entry("SETTINGS", JNum(I(0)))>>)
InheritedFieldDocument ==
    JObj(<<Entry("constructor", JNum(I(1)))>>)
ImportDocuments ==
    {[label |-> "falsy scenario", doc |-> FalsyScenarioDocument],
     [label |-> "null category", doc |-> NullCategoryDocument],
     [label |-> "unknown field", doc |-> UnknownFieldDocument],
     [label |-> "inherited field", doc |-> InheritedFieldDocument],
     [label |-> "{not valid json}", doc |-> Unparsable],
     [label |-> "null", doc |-> JNull]}

StorageInitAll ==
    /\ CostModelInit
    /\ PricingModelInit
    /\ StorageInit
    /\ result = Ret("constructor", "undefined", "")

\* the scenarios kept in localStorage
ScenarioNext ==
    \/ \E name \in ScenarioNames, data \in ScenarioPayloads : saveScenario(name, data)
    \/ \E name \in LookupNames : deleteScenario(name)
    \/ \E data \in {JNull, CostData} : saveToStorage("dpo_scenarios", data)
    \/ importAllData("falsy scenario", FalsyScenarioDocument)
    \/ removeFromStorage("dpo_scenarios")
    \/ Tick

SpecStorage == StorageInitAll /\ [][ScenarioNext]_vars

\* the categories written by saves and imports
ImportNext ==
    \/ \E key \in {"dpo_settings", "dpo_cost_analysis", "test_key"}, data \in CategoryData :
          saveToStorage(key, data)
    \/ \E d \in ImportDocuments : importAllData(d.label, d.doc)
    \/ \E key \in {"dpo_settings", "test_key"} : removeFromStorage(key)
    \/ clearAppStorage

SpecImport == StorageInitAll /\ [][ImportNext]_vars

\* exports, and imports of what was exported
RoundTripNext ==
    \/ \E key \in {"dpo_settings", "dpo_cost_analysis"}, data \in {CostData, JNum(I(0))} :
          saveToStorage(key, data)
    \/ saveScenario("Basic Strategy", Scenario1Data)
    \/ deleteScenario("Basic Strategy")
    \/ clearAppStorage
    \/ exportAllData
    \/ exported # NoItem /\ importAllData("exported", exported)

SpecRoundTrip == StorageInitAll /\ [][RoundTripNext]_vars

\* payloads of the scenarios held in memory: the two of Test 10, and one
\* without a pricing strategy
Recommendation(price, margin) ==
    JObj(<<Entry("pricingStrategy",
                 JObj(<<Entry("priceRecommendations",
                              JObj(<<Entry("optimal",
                                           JObj(<<Entry("price", JNum(price)),
                                                  Entry("margin", JNum(margin))>>))>>))>>))>>)
BasicStrategyData == Recommendation(R(107143, 100), R(30, 100))
PremiumStrategyData == Recommendation(R(128572, 100), R(42, 100))
NoStrategyData == JObj(<<Entry("costAnalysis", JObj(<<Entry("total", JNum(I(750)))>>))>>)
ModelPayloads == {BasicStrategyData, PremiumStrategyData, NoStrategyData}

ScenarioModelNext ==
    \/ \E name \in ScenarioNames, data \in ModelPayloads : ScenarioModel_saveScenario(name, data)
    \/ \E name \in LookupNames : ScenarioModel_deleteScenario(name)
    \/ \E a \in LookupNames, b \in LookupNames : ScenarioModel_compareScenarios(a, b)
    \/ Tick

SpecScenarioModel == StorageInitAll /\ [][ScenarioModelNext]_vars

\* the storage utilities on a backend whose methods can fail
BackendNext ==
    \/ \E method \in StorageMethods : simulateError(method)
    \/ \E method \in StorageMethods : restoreOriginal(method)
    \/ \E key \in {"dpo_settings", "test_key"} : setItemUnparsable(key)
    \/ \E key \in {"dpo_settings", "test_key"}, data \in {CostData, JUndefined} :
          saveToStorage(key, data)
    \/ saveScenario("Basic Strategy", Scenario1Data)
    \/ \E name \in {"Basic Strategy", "Premium Strategy"} : deleteScenario(name)
    \/ \E d \in ImportDocuments : importAllData(d.label, d.doc)
    \/ removeFromStorage("test_key")
    \/ clearAppStorage

SpecBackend == StorageInitAll /\ [][BackendNext]_vars

\* two tabs saving and deleting scenarios in the same storage
InterleavingNext ==
    \/ \E tab \in Tabs, name \in ScenarioNames : saveScenario_Load(tab, name, Scenario1Data)
    \/ \E tab \in Tabs, name \in ScenarioNames : deleteScenario_Load(tab, name)
    \/ \E tab \in Tabs : Scenario_Write(tab)
    \/ Scenario_Return
    \/ Tick

SpecInterleaving == StorageInitAll /\ [][InterleavingNext]_vars

Next ==
    \/ CostNext
    \/ InterleavingNext
    \/ ScaleNext
    \/ RecommendationNext
    \/ BackendNext
    \/ PricingNext
    \/ SegmentNext
    \/ ScenarioNext
    \/ ImportNext
    \/ RoundTripNext
    \/ ScenarioModelNext

Spec == Init /\ [][Next]_vars

(***************************************************************************)
(* Properties of CostModel                                                 *)
(***************************************************************************)
RECURSIVE SumAmounts(_)
SumAmounts(seq) ==
    IF seq = <<>> THEN I(0) ELSE Add(Head(seq).amount, SumAmounts(Tail(seq)))

RECURSIVE SumRateHours(_)
SumRateHours(seq) ==
    IF seq = <<>> THEN I(0)
    ELSE Add(Mul(Head(seq).rate, Head(seq).hours), SumRateHours(Tail(seq)))

RECURSIVE SumMonthly(_)
SumMonthly(seq) ==
    IF seq = <<>> THEN I(0)
    ELSE Add(IF Head(seq).period = "year"
             THEN Mul(Head(seq).amount, R(1, 12))
             ELSE Head(seq).amount,
             SumMonthly(Tail(seq)))

NonNegative(x) == IsFinite(x) /\ Leq(I(0), x)

\* amounts, rates and hours are non-negative numbers and expectedVolume > 0
ValidCostInputs ==
    /\ \A i \in DOMAIN directCosts : NonNegative(directCosts[i].amount)
    /\ \A i \in DOMAIN indirectCosts : NonNegative(indirectCosts[i].amount)
    /\ \A i \in DOMAIN timeCosts :
          NonNegative(timeCosts[i].rate) /\ NonNegative(timeCosts[i].hours)
    /\ IsFinite(expectedVolume)
    /\ Lt(I(0), expectedVolume)

MarginInRange == Leq(I(0), targetMargin) /\ Lt(targetMargin, I(1))

\* direct 50, indirect 2000 a month, 75 x 8 hours, volume 20
ExampleCostModel ==
    /\ Len(directCosts) = 1 /\ directCosts[1].amount = I(50)
    /\ Len(indirectCosts) = 1 /\ indirectCosts[1].amount = I(2000)
    /\ indirectCosts[1].period = "month"
    /\ Len(timeCosts) = 1 /\ timeCosts[1].rate = I(75) /\ timeCosts[1].hours = I(8)
    /\ expectedVolume = I(20)

\* C1: for valid inputs the total cost per unit is the sum of the direct
\* amounts, of rate x hours over the time costs, and of the monthly indirect
\* costs (a yearly cost counting for a twelfth) divided by the expected
\* volume; the example gives 50, 600, 100 and 750.
C1_TotalCostIsSumOfParts ==
    ValidCostInputs =>
        /\ calculateTotalDirectCost = SumAmounts(directCosts)
        /\ calculateTotalTimeCost = SumRateHours(timeCosts)
        /\ calculateAllocatedIndirectCost = Div(SumMonthly(indirectCosts), expectedVolume)
        /\ calculateTotalCostPerUnit =
              Add(Add(SumAmounts(directCosts), SumRateHours(timeCosts)),
                  Div(SumMonthly(indirectCosts), expectedVolume))
        /\ ExampleCostModel =>
              /\ calculateTotalDirectCost = I(50)
              /\ calculateTotalTimeCost = I(600)
              /\ calculateAllocatedIndirectCost = I(100)
              /\ calculateTotalCostPerUnit = I(750)

C1_Witness ==
    /\ ValidCostInputs
    /\ Len(directCosts) = 2
    /\ Len(timeCosts) = 2
    /\ Len(indirectCosts) = 2
    /\ indirectCosts[1].period = "month"
    /\ indirectCosts[2].period = "year"
    /\ expectedVolume = I(20)
    /\ calculateTotalCostPerUnit = I(1410)

\* C2 as claimed: for any cost configuration with expectedVolume > 0 and
\* targetMargin in [0,1) the margin at the minimum viable price is the
\* target margin.
C2_MarginAtMinimumViablePrice ==
    (ValidCostInputs /\ MarginInRange) =>
        NumEq(calculateMarginAtPrice(calculateMinimumViablePrice), targetMargin)

\* C2 amended: the margin at the minimum viable price is the target margin
\* whenever expectedVolume > 0, targetMargin is in [0,1) and the total cost
\* per unit is a finite number other than 0.
C2_MarginAtMinimumViablePriceNonZeroCost ==
    (/\ IsFinite(expectedVolume) /\ Lt(I(0), expectedVolume)
     /\ MarginInRange
     /\ IsFinite(calculateTotalCostPerUnit)
     /\ ~IsZero(calculateTotalCostPerUnit)) =>
        NumEq(calculateMarginAtPrice(calculateMinimumViablePrice), targetMargin)

C2_Witness ==
    /\ ValidCostInputs
    /\ targetMargin = R(1, 2)
    /\ Len(indirectCosts) = 2
    /\ Len(directCosts) = 1
    /\ Lt(I(0), calculateTotalCostPerUnit)
    /\ calculateMarginAtPrice(calculateMinimumViablePrice) = R(1, 2)

\* prices at, just above and just below the cost, and fixed ones
TestPrices ==
    {calculateTotalCostPerUnit, Add(calculateTotalCostPerUnit, I(1)),
     Sub(calculateTotalCostPerUnit, I(1)), I(0), I(1200), NaN}

\* C5: the break-even volume is +Infinity for a price at or below the total
\* cost per unit, and otherwise the monthly indirect costs divided by
\* (price - direct - time).
C5_BreakEvenVolume ==
    \A price \in TestPrices :
        calculateBreakEvenVolume(price) =
            IF Leq(price, calculateTotalCostPerUnit) THEN Infinity
            ELSE Div(SumMonthly(indirectCosts),
                     Sub(Sub(price, SumAmounts(directCosts)), SumRateHours(timeCosts)))

C5_Witness ==
    /\ ValidCostInputs
    /\ Lt(I(0), monthlyIndirectCosts)
    /\ Len(directCosts) > 0
    /\ Len(timeCosts) > 0
    /\ calculateBreakEvenVolume(calculateTotalCostPerUnit) = Infinity
    /\ IsFinite(calculateBreakEvenVolume(Add(calculateTotalCostPerUnit, I(1))))
    /\ Lt(I(0), calculateBreakEvenVolume(Add(calculateTotalCostPerUnit, I(1))))

\* C7 as claimed: in every reachable CostModel state expectedVolume > 0 and
\* 0 <= targetMargin < 1.
C7_CostModelRanges ==
    /\ Lt(I(0), expectedVolume)
    /\ MarginInRange

Appended(old, new) ==
    /\ Len(new) = Len(old) + 1
    /\ \A i \in DOMAIN old : new[i] = old[i]

\* C8 as claimed: an add operation either fails with an error and leaves the
\* three cost lists unchanged, or appends one entry with finite numbers to
\* its own list and leaves the other two unchanged.
C8_AddCostValidation ==
    [][/\ result'.op = "addDirectCost" =>
            \/ /\ result'.ret = "throw"
               /\ UNCHANGED <<directCosts, indirectCosts, timeCosts>>
            \/ /\ result'.ret = "true"
               /\ Appended(directCosts, directCosts')
               /\ IsFinite(directCosts'[Len(directCosts')].amount)
               /\ UNCHANGED <<indirectCosts, timeCosts>>
       /\ result'.op = "addIndirectCost" =>
            \/ /\ result'.ret = "throw"
               /\ UNCHANGED <<directCosts, indirectCosts, timeCosts>>
            \/ /\ result'.ret = "true"
               /\ Appended(indirectCosts, indirectCosts')
               /\ IsFinite(indirectCosts'[Len(indirectCosts')].amount)
               /\ UNCHANGED <<directCosts, timeCosts>>
       /\ result'.op = "addTimeCost" =>
            \/ /\ result'.ret = "throw"
               /\ UNCHANGED <<directCosts, indirectCosts, timeCosts>>
            \/ /\ result'.ret = "true"
               /\ Appended(timeCosts, timeCosts')
               /\ IsFinite(timeCosts'[Len(timeCosts')].rate)
               /\ IsFinite(timeCosts'[Len(timeCosts')].hours)
               /\ UNCHANGED <<directCosts, indirectCosts>>
      ]_vars
(***************************************************************************)
(* Properties of PricingModel                                              *)
(***************************************************************************)
RECURSIVE SumPrices(_)
SumPrices(seq) ==
    IF seq = <<>> THEN I(0) ELSE Add(Head(seq).price, SumPrices(Tail(seq)))

MeanCompetitorPrice == Div(SumPrices(competitors), I(Len(competitors)))

\* C3 as claimed, on cost models within their documented ranges: with at
\* least one competitor the competitor-indexed price is
\* max(mean competitor price x position multiplier, minimum viable price) and
\* not below the minimum viable price; with a competitor and a value factor
\* the value-based price is not below the minimum viable price.
C3_PriceFloor ==
    (ValidCostInputs /\ MarginInRange /\ Len(competitors) > 0) =>
        /\ calculateCompetitorIndexedPrice =
              MathMax(Mul(MeanCompetitorPrice,
                          Lookup(CompetitorMultipliers, marketPosition)),
                      calculateMinimumViablePrice)
        /\ Leq(calculateMinimumViablePrice, calculateCompetitorIndexedPrice)
        /\ Len(valueFactors) > 0 =>
              Leq(calculateMinimumViablePrice, calculateValueBasedPrice)

\* C4: without competitors the competitor-indexed price is the cost-plus
\* price, and without competitors or without value factors the value-based
\* price is the cost-plus price, for every market position.
C4_FallbackToCostPlus ==
    /\ Len(competitors) = 0 =>
          calculateCompetitorIndexedPrice = calculateCostPlusPrice(I(1))
    /\ (Len(competitors) = 0 \/ Len(valueFactors) = 0) =>
          /\ calculateValueBasedPrice = calculateCostPlusPrice(I(1))
          /\ calculateValueBasedPrice =
                Mul(calculateMinimumViablePrice, Lookup(CostPlusMultipliers, marketPosition))

C4_Witness ==
    /\ Len(competitors) = 0
    /\ Len(valueFactors) = 2
    /\ marketPosition = "premium"
    /\ calculateValueBasedPrice = R(9000, 7)

\* C6 as claimed, on cost models within their documented ranges: no
\* calculation returns NaN from a zero denominator.
C6_NoNaNFromZeroDenominator ==
    (ValidCostInputs /\ MarginInRange) =>
        /\ ~IsNaN(calculateMarginAtPrice(I(0)))
        /\ ~IsNaN(calculateWeightedElasticity)
        /\ ~IsNaN(calculateCompetitorIndexedPrice)
        /\ ~IsNaN(calculateValueBasedPrice)

\* C9: setMarketPosition stores one of the three positions, fails on any
\* other value leaving the model unchanged, and marketPosition is one of the
\* three positions in every reachable state.
C9_MarketPositionValidated ==
    /\ [](marketPosition \in MarketPositions)
    /\ [][result'.op = "setMarketPosition" =>
            IF result'.arg \in MarketPositions
            THEN /\ result'.ret = "undefined"
                 /\ marketPosition' = result'.arg
                 /\ UNCHANGED <<competitors, valueFactors, segments, nextId>>
                 /\ UNCHANGED costVars
            ELSE /\ result'.ret = "throw"
                 /\ UNCHANGED pricingVars
                 /\ UNCHANGED costVars
         ]_vars

C9_Witness ==
    /\ result = Ret("setMarketPosition", "throw", "luxury")
    /\ marketPosition = "premium"
    /\ Len(competitors) > 0

\* x is a whole number of cents
IsMultipleOfCent(x) == IsFinite(x) /\ Mul(x, I(100)).d = 1

\* C10 as claimed, on cost models within their documented ranges: the
\* optimal price is the 0.4/0.3/0.3 blend rounded to 2 decimals and the price
\* of every strategy is a multiple of 0.01.
C10_RoundedPrices ==
    (ValidCostInputs /\ MarginInRange) =>
        /\ getPriceRecommendation("optimal").price =
              RoundToCents(Add(Add(Mul(R(2, 5), calculateCostPlusPrice(I(1))),
                                   Mul(R(3, 10), calculateCompetitorIndexedPrice)),
                               Mul(R(3, 10), calculateValueBasedPrice)))
        /\ \A strategy \in Strategies :
              IsMultipleOfCent(getPriceRecommendation(strategy).price)
\* C11 as claimed: the margin and the break-even volume of a recommendation
\* are those of the price field it returns (rounded to 2 decimals).
C11_MarginOfReturnedPrice ==
    \A strategy \in Strategies :
        LET r == getPriceRecommendation(strategy)
        IN /\ r.margin = calculateMarginAtPrice(r.price)
           /\ r.breakEvenVolume = calculateBreakEvenVolume(r.price)

\* C11 amended: the margin and the break-even volume of a recommendation are
\* those of the strategy's price before rounding, of which the price field is
\* the rounding to 2 decimals; they are those of the price field when the
\* price before rounding is a whole number of cents.
C11_MarginOfUnroundedPrice ==
    \A strategy \in Strategies :
        LET r == getPriceRecommendation(strategy)
            p == IF strategy = "cost-plus" THEN calculateCostPlusPrice(I(1))
                 ELSE IF strategy = "competitor" THEN calculateCompetitorIndexedPrice
                 ELSE IF strategy = "value" THEN calculateValueBasedPrice
                 ELSE OptimalBlend
        IN /\ r.price = RoundToCents(p)
           /\ r.margin = Div(Sub(p, calculateTotalCostPerUnit), p)
           /\ r.breakEvenVolume =
                 IF Leq(p, calculateTotalCostPerUnit) THEN Infinity
                 ELSE Div(SumMonthly(indirectCosts),
                          Sub(p, Add(SumAmounts(directCosts), SumRateHours(timeCosts))))
           /\ IsMultipleOfCent(p) =>
                 /\ r.margin = calculateMarginAtPrice(r.price)
                 /\ r.breakEvenVolume = calculateBreakEvenVolume(r.price)

C11_Witness ==
    /\ Len(competitors) > 0
    /\ Len(valueFactors) > 0
    /\ IsFinite(OptimalBlend)
    /\ ~IsMultipleOfCent(OptimalBlend)
    /\ getPriceRecommendation("optimal").margin #
          calculateMarginAtPrice(getPriceRecommendation("optimal").price)
    /\ IsFinite(getPriceRecommendation("optimal").breakEvenVolume)
(***************************************************************************)
(* Properties of CustomerSegmentModel                                      *)
(***************************************************************************)
RECURSIVE SumSizes(_)
SumSizes(seq) ==
    IF seq = <<>> THEN I(0) ELSE Add(Head(seq).size, SumSizes(Tail(seq)))

RECURSIVE SumElasticityTimesSize(_)
SumElasticityTimesSize(seq) ==
    IF seq = <<>> THEN I(0)
    ELSE Add(Mul(Head(seq).priceElasticity, Head(seq).size),
             SumElasticityTimesSize(Tail(seq)))

DistinctIds ==
    \A i, j \in DOMAIN segments : i # j => segments[i].id # segments[j].id

\* C13 as claimed: the stored segments have pairwise distinct ids, and every
\* addSegment returns a new id, larger than those returned before and not
\* borne by any stored segment.
C13_UniqueIds ==
    /\ []DistinctIds
    /\ [][result'.op = "addSegment" =>
            /\ nextId' = nextId + 1
            /\ result'.ret = SegId(nextId)
            /\ \A i \in DOMAIN segments : segments[i].id # result'.ret
         ]_vars

\* the first position of id in the list, 0 when it is absent
FirstWithId(seq, id) ==
    IF \A i \in DOMAIN seq : seq[i].id # id THEN 0
    ELSE CHOOSE i \in DOMAIN seq :
            seq[i].id = id /\ \A j \in 1..(i - 1) : seq[j].id # id

\* C14: updateSegment and removeSegment return false and change nothing when
\* no segment has the id; otherwise they return true, updateSegment
\* overwrites only the given fields of that segment and removeSegment removes
\* that segment only, the others keeping their order.
C14_UpdateRemoveFrame ==
    [][/\ result'.op = "updateSegment" =>
            LET index == FirstWithId(segments, result'.arg)
            IN IF index = 0
               THEN result'.ret = "false" /\ UNCHANGED <<segments, nextId>>
               ELSE /\ result'.ret = "true"
                    /\ nextId' = nextId
                    /\ Len(segments') = Len(segments)
                    /\ \A i \in DOMAIN segments : i # index => segments'[i] = segments[i]
                    /\ \E d \in SegmentUpdateInputs :
                          \A f \in SegmentFields :
                              segments'[index][f] =
                                  IF f \in d.fields THEN d.values[f] ELSE segments[index][f]
       /\ result'.op = "removeSegment" =>
            LET index == FirstWithId(segments, result'.arg)
            IN IF index = 0
               THEN result'.ret = "false" /\ UNCHANGED <<segments, nextId>>
               ELSE /\ result'.ret = "true"
                    /\ nextId' = nextId
                    /\ Len(segments') = Len(segments) - 1
                    /\ \A i \in 1..(index - 1) : segments'[i] = segments[i]
                    /\ \A i \in index..Len(segments') : segments'[i] = segments[i + 1]
      ]_vars

C14_Witness ==
    /\ result = Ret("removeSegment", "true", "seg_1")
    /\ Len(segments) = 2
    /\ segments[1].id = "seg_2"
    /\ segments[1].description = "Updated"
    /\ segments[2].id = "seg_3"

(***************************************************************************)
(* Properties of the stored scenarios                                      *)
(***************************************************************************)
\* what scenarios[name] is expected to hold after the mapping was saved
ScenarioOf(st, name) == Get(LoadFrom(st, "dpo_scenarios", JObj(<<>>)), name)

\* the mapping with the createdAt of one scenario set to a given text
WithCreatedAt(mapping, name, text) ==
    Put(mapping, name, Put(Get(mapping, name), "createdAt", text))

SaveScenarioPost(name, data) ==
    /\ loadScenario(name)' = Put(Spread(data), "createdAt", JStr(IsoString(clock)))
    /\ \A other \in LookupNames \ {name} : loadScenario(other)' = loadScenario(other)
    /\ \A key \in StorageKeyUniverse \ {"dpo_scenarios"} : store'[key] = store[key]
    /\ \A t \in clock..MaxClock :
          LET twice == SaveScenarioInto(store', name, data, t)
          IN /\ SaveScenarioReturns(store', name, data, t)
             /\ \A key \in StorageKeyUniverse \ {"dpo_scenarios"} : twice[key] = store'[key]
             /\ WithCreatedAt(twice["dpo_scenarios"], name, JStr(IsoString(clock)))
                   = store'["dpo_scenarios"]
             /\ Get(ScenarioOf(twice, name), "createdAt") = JStr(IsoString(t))

\* C15: after saveScenario(name, payload) returns true, loadScenario(name)
\* returns the payload's fields plus createdAt equal to the save time, every
\* other scenario and every other storage category is unchanged, and saving
\* the same name again with the same payload changes only that createdAt
C15_SaveScenario ==
    [][\A name \in ScenarioNames, data \in ScenarioPayloads :
          (saveScenario(name, data) /\ result'.ret = "true") => SaveScenarioPost(name, data)]_vars

\* the same for the payloads whose numbers are all finite
C15_SaveScenarioFinitePayload ==
    [][\A name \in ScenarioNames :
          (saveScenario(name, Scenario1Data) /\ result'.ret = "true")
             => SaveScenarioPost(name, Scenario1Data)]_vars

\* C16: loadScenario(name) returns null for every name that is not stored
\* in the scenarios mapping, and the stored snapshot for every stored name
C16_LoadScenario ==
    \A name \in LookupNames :
        loadScenario(name) = IF HasOwn(getAllScenarios, name)
                             THEN Get(getAllScenarios, name)
                             ELSE JNull

\* the same for the names no object inherits and the snapshots that are objects
C16_LoadScenarioOwnObjects ==
    \A name \in ScenarioNames :
        (HasOwn(getAllScenarios, name) => Get(getAllScenarios, name).t = "object")
           => loadScenario(name) = IF HasOwn(getAllScenarios, name)
                                   THEN Get(getAllScenarios, name)
                                   ELSE JNull

\* C17: deleteScenario(name) returns false and leaves the mapping unchanged
\* exactly when name is not a key of the stored mapping; when it is a key,
\* whatever its value, it returns true and removes that key only
C17_DeleteScenario ==
    [][\A name \in LookupNames :
          deleteScenario(name) =>
             IF HasOwn(getAllScenarios, name)
             THEN /\ result'.ret = "true"
                  /\ getAllScenarios' = Delete(getAllScenarios, name)
             ELSE /\ result'.ret = "false"
                  /\ getAllScenarios' = getAllScenarios]_vars

\* the same for the names no object inherits and the snapshots that are objects
C17_DeleteScenarioOwnObjects ==
    [][\A name \in ScenarioNames :
          (/\ deleteScenario(name)
           /\ HasOwn(getAllScenarios, name) => Get(getAllScenarios, name).t = "object") =>
             IF HasOwn(getAllScenarios, name)
             THEN /\ result'.ret = "true"
                  /\ getAllScenarios' = Delete(getAllScenarios, name)
             ELSE /\ result'.ret = "false"
                  /\ getAllScenarios' = getAllScenarios]_vars

(***************************************************************************)
(* Properties of ScenarioModel                                             *)
(***************************************************************************)
\* the number under pricingStrategy.priceRecommendations.optimal of a stored
\* scenario, 0 when a field on the way is missing
OptimalNumber(scenario, field) ==
    LET path == <<"pricingStrategy", "priceRecommendations", "optimal", field>>
        at1 == Get(scenario, path[1])
        at2 == Get(at1, path[2])
        at3 == Get(at2, path[3])
    IN IF /\ HasOwn(scenario, path[1])
          /\ HasOwn(at1, path[2])
          /\ HasOwn(at2, path[3])
          /\ HasOwn(at3, path[4])
       THEN Get(at3, path[4]).n
       ELSE I(0)

ComparedField(comparison, part, field) == Get(Get(comparison, part), field)

CompareScenariosPost(names) ==
    \A a \in names, b \in names :
        IF ~HasOwn(scenarios, a) \/ ~HasOwn(scenarios, b)
        THEN compareScenarios(a, b) = JNull
        ELSE LET ab == compareScenarios(a, b)
                 ba == compareScenarios(b, a)
                 priceA == OptimalNumber(Get(scenarios, a), "price")
                 priceB == OptimalNumber(Get(scenarios, b), "price")
                 marginA == OptimalNumber(Get(scenarios, a), "margin")
                 marginB == OptimalNumber(Get(scenarios, b), "margin")
             IN /\ ab # JNull
                /\ ComparedField(ab, "prices", "scenario1") = JNum(priceA)
                /\ ComparedField(ab, "prices", "scenario2") = JNum(priceB)
                /\ ComparedField(ab, "margins", "scenario1") = JNum(marginA)
                /\ ComparedField(ab, "margins", "scenario2") = JNum(marginB)
                /\ NumEq(ComparedField(ab, "prices", "difference").n, Sub(priceA, priceB))
                /\ NumEq(ComparedField(ab, "margins", "difference").n, Sub(marginA, marginB))
                /\ NumEq(ComparedField(ba, "prices", "difference").n,
                         Neg(ComparedField(ab, "prices", "difference").n))
                /\ NumEq(ComparedField(ba, "margins", "difference").n,
                         Neg(ComparedField(ab, "margins", "difference").n))
                /\ (priceA = R(107143, 100) /\ priceB = R(128572, 100))
                      => ComparedField(ab, "prices", "difference").n = Neg(R(21429, 100))

CompareScenariosFrame(names) ==
    \A a \in names, b \in names :
        ScenarioModel_compareScenarios(a, b) => scenarios' = scenarios

\* C18: compareScenarios(a, b) returns null when either name is not stored;
\* otherwise it returns the optimal price and margin of each scenario, 0 for
\* a missing field, and the differences a minus b, which compareScenarios(b, a)
\* negates; a call leaves the stored scenarios as they are
C18_CompareScenarios ==
    /\ []CompareScenariosPost(LookupNames)
    /\ [][CompareScenariosFrame(LookupNames)]_vars

\* the same for the names no object inherits
C18_CompareScenariosOwnNames ==
    /\ []CompareScenariosPost(ScenarioNames)
    /\ [][CompareScenariosFrame(ScenarioNames)]_vars

(***************************************************************************)
(* Properties of export and import                                         *)
(***************************************************************************)
\* the storage key of a category
CategoryKey(category) == Get(STORAGE_KEYS, category).s

\* the categories a document gives with content that is not null
GivenCategories(document) ==
    {c \in CategoryNames : HasOwn(document, c) /\ Get(document, c) # JNull}

ImportPost(documents) ==
    \A d \in documents :
        importAllData(d.label, d.doc) =>
           \A key \in StorageKeyUniverse :
               store'[key] = IF \E c \in GivenCategories(d.doc) : CategoryKey(c) = key
                             THEN Get(d.doc, CHOOSE c \in GivenCategories(d.doc) :
                                                CategoryKey(c) = key)
                             ELSE store[key]

\* C20: importAllData(document) overwrites exactly the categories that the
\* document gives with content that is not null; a field that is not one of
\* the ten category names causes no write to any storage key, and the other
\* categories keep their stored value
C20_ImportFrame == [][ImportPost(ImportDocuments)]_vars

\* the same for documents without a field that every object inherits
C20_ImportFrameOwnFields ==
    [][ImportPost({d \in ImportDocuments : ~HasOwn(d.doc, "constructor")})]_vars

\* what a category loads to
LoadCategory(category) == loadFromStorage(CategoryKey(category), JNull)

\* the document returned by exportAllData records what every category loads to
ExportRecordsState ==
    exportAllData => \A c \in CategoryNames : Get(exported', c) = LoadCategory(c)

\* every category that the exported document holds as null loads to null
NullsStillNull ==
    \A c \in CategoryNames : Get(exported, c) = JNull => LoadCategory(c) = JNull

\* after the import every category loads to what the exported document holds
ImportRestores ==
    /\ result'.ret = "true"
    /\ \A c \in CategoryNames : LoadCategory(c)' = Get(exported, c)

\* C19: an export D taken in a state S and imported in any later state
\* returns true and makes each of the ten categories load to its value in S
C19_RoundTrip ==
    /\ [][ExportRecordsState]_vars
    /\ [][(exported # NoItem /\ importAllData("exported", exported)) => ImportRestores]_vars

\* C19 amended: the same when every category that loaded to null in S still
\* loads to null where D is imported, as it does immediately and after
\* clearAppStorage
C19_RoundTripWhenNullsStayNull ==
    /\ [][ExportRecordsState]_vars
    /\ [][(exported # NoItem /\ NullsStillNull /\ importAllData("exported", exported))
             => ImportRestores]_vars

\* an export with a cost analysis and a scenario was imported, and both
\* load to what was exported
C19_Witness ==
    /\ result = Ret("importAllData", "true", "exported")
    /\ Get(exported, "COST_ANALYSIS") = CostData
    /\ HasOwn(Get(exported, "SCENARIOS"), "Basic Strategy")
    /\ Get(exported, "SETTINGS") = JNull
    /\ \A c \in CategoryNames : LoadCategory(c) = Get(exported, c)

(***************************************************************************)
(* Properties of the storage utilities on a failing backend                *)
(***************************************************************************)
\* C21: whenever importAllData returns false, no storage key has been
\* written: the storage after the call is the storage before it
C21_ImportAtomicOnFailure ==
    [][\A d \in ImportDocuments :
          (importAllData(d.label, d.doc) /\ result'.ret = "false") => store' = store]_vars

\* a malformed document was rejected while a category and a foreign key
\* were stored
C21_Witness ==
    /\ result = Ret("importAllData", "false", "{not valid json}")
    /\ store["dpo_settings"] = CostData
    /\ store["test_key"] = CostData

\* the keys and data of the saves, the names of the scenario operations
SavedKeys == {"dpo_settings", "test_key"}
SavedData == {CostData, JUndefined}

\* with a throwing setItem: saveToStorage, saveScenario and deleteScenario
\* of a stored name return false
WriteFailureSurfaced ==
    "setItem" \in failing =>
       /\ \A key \in SavedKeys, data \in SavedData :
             saveToStorage(key, data) => result'.ret = "false"
       /\ \A name \in ScenarioNames, data \in ScenarioPayloads :
             saveScenario(name, data) => result'.ret = "false"
       /\ \A name \in ScenarioNames :
             (deleteScenario(name) /\ HasOwn(getAllScenarios, name)) => result'.ret = "false"

\* with a throwing setItem: importAllData of a document that gives a
\* category returns false
ImportFailureSurfaced ==
    "setItem" \in failing =>
       \A d \in ImportDocuments :
           (importAllData(d.label, d.doc) /\ GivenCategories(d.doc) # {})
              => result'.ret = "false"

\* with a throwing getItem or an unparsable text under the key,
\* loadFromStorage returns the default it was given
ReadFailureGivesDefault ==
    \A key \in StorageKeyUniverse, defaultValue \in {JNull, JObj(<<>>)} :
        ("getItem" \in failing \/ store[key] = Unparsable)
           => loadFromStorage(key, defaultValue) = defaultValue

\* C22: a failure of the backend is a failure return: when setItem throws,
\* saveToStorage, saveScenario, deleteScenario of a stored name and
\* importAllData of a document that gives a category return false, and when
\* the read throws or the text is unparsable loadFromStorage returns the
\* default
C22_BackendFailureSurfaced ==
    /\ []ReadFailureGivesDefault
    /\ [][WriteFailureSurfaced /\ ImportFailureSurfaced]_vars

\* the same without importAllData
C22_BackendFailureSurfacedBySaves ==
    /\ []ReadFailureGivesDefault
    /\ [][WriteFailureSurfaced]_vars

\* C23: after clearAppStorage returns true, each of the ten application
\* keys loads to the default null and getAllScenarios is the empty mapping,
\* and the keys outside the ten are as they were
C23_ClearAppStorage ==
    [][(clearAppStorage /\ result'.ret = "true") =>
          /\ \A key \in AppStorageKeys : loadFromStorage(key, JNull)' = JNull
          /\ getAllScenarios' = JObj(<<>>)
          /\ \A key \in StorageKeyUniverse \ AppStorageKeys : store'[key] = store[key]]_vars

\* the application keys were cleared while two keys outside them hold items
C23_Witness ==
    /\ result = Ret("clearAppStorage", "true", "")
    /\ store["test_key"] = CostData
    /\ store["function Object() { [native code] }"] = JNum(I(1))
    /\ \A key \in AppStorageKeys : store[key] = NoItem

(***************************************************************************)
(* Properties of the recommendations                                       *)
(***************************************************************************)
\* C24: in every state getAllPriceRecommendations() holds under each of the
\* four keys what getPriceRecommendation of that strategy returns in that
\* state, and a call of either changes no field of the CostModel and of the
\* PricingModel
C24_RecommendationsCurrentAndPure ==
    /\ [](/\ DOMAIN getAllPriceRecommendations = Strategies
          /\ \A strategy \in Strategies :
                getAllPriceRecommendations[strategy] = getPriceRecommendation(strategy))
    /\ [][(\/ Call_getAllPriceRecommendations
           \/ \E strategy \in Strategies : Call_getPriceRecommendation(strategy))
             => (UNCHANGED costVars /\ UNCHANGED pricingVars)]_vars

\* all four were computed after the margin, the volume, the competitors,
\* the value factors and the position had changed, and they differ
C24_Witness ==
    /\ result = Ret("getAllPriceRecommendations", "object", "")
    /\ targetMargin = R(1, 2)
    /\ expectedVolume = I(100)
    /\ Len(competitors) = 2
    /\ Len(valueFactors) = 1
    /\ marketPosition = "premium"
    /\ getAllPriceRecommendations["optimal"] # getAllPriceRecommendations["cost-plus"]

(***************************************************************************)
(* Properties of PricingModel.addSegment                                   *)
(***************************************************************************)
\* the segment appended by a step
LastSegment == segments'[Len(segments')]

\* addSegment through the PricingModel stores -((scale/10)*9.5 + 0.5), that
\* is -(95*scale + 50)/100, through the aggregator
StoresScaledElasticity ==
    \A scale \in UIScale :
        PricingModel_addSegment("A", NumArg(I(50)), I(scale), "") =>
           /\ Len(segments') = Len(segments) + 1
           /\ LastSegment.id = result'.ret
           /\ LastSegment.size = I(50)
           /\ LastSegment.priceElasticity = Neg(R(95 * scale + 50, 100))

\* a larger value of the scale gives a more negative elasticity
ScaleDecreasing ==
    \A s1 \in UIScale, s2 \in UIScale :
        s1 < s2 => Lt(ScaleToElasticity(I(s2)), ScaleToElasticity(I(s1)))

\* the elasticities of the scale lie between two numbers, which the largest
\* and the smallest value of the scale give
ScaleSpans(lowest, highest) ==
    /\ \A scale \in UIScale :
          /\ Leq(lowest, ScaleToElasticity(I(scale)))
          /\ Leq(ScaleToElasticity(I(scale)), highest)
    /\ ScaleToElasticity(I(10)) = lowest
    /\ ScaleToElasticity(I(1)) = highest

\* C25: PricingModel.addSegment stores the elasticity -((scale/10)*9.5 + 0.5);
\* over the scale 1..10 the elasticities span [-10, -0.5], -10 at 10 and
\* -0.5 at the least sensitive value, and a larger value gives a more
\* negative elasticity
C25_ScaledElasticity ==
    /\ [](ScaleDecreasing /\ ScaleSpans(Neg(I(10)), Neg(R(1, 2))))
    /\ [][StoresScaledElasticity]_vars

\* C25 amended: over the scale 1..10 the elasticities span [-10, -1.45],
\* inside [-10, -0.5]: -10 at 10 and -1.45 at 1
C25_ScaledElasticityFromOne ==
    /\ [](/\ ScaleDecreasing
          /\ ScaleSpans(Neg(I(10)), Neg(R(145, 100)))
          /\ Leq(Neg(R(145, 100)), Neg(R(1, 2))))
    /\ [][StoresScaledElasticity]_vars

\* the two ends of the scale and the value of Test 6 were added
C25_Witness ==
    /\ Len(segments) = 3
    /\ segments[1].priceElasticity = Neg(I(10))
    /\ segments[2].priceElasticity = Neg(R(145, 100))
    /\ segments[3].priceElasticity = Neg(R(715, 100))
    /\ result = Ret("addSegment", "seg_3", "")

(***************************************************************************)
(* Properties of the market position                                       *)
(***************************************************************************)
CostPlusEnsuresMargin ==
    /\ Leq(targetMargin, getPriceRecommendation("cost-plus").margin)
    /\ Leq(calculateMinimumViablePrice, calculateCostPlusPrice(I(1)))

\* C27 as claimed, on cost models within their documented ranges: with a
\* positive cost per unit the margin of the cost-plus recommendation is at
\* least the target margin, and the cost-plus price is not below the minimum
\* viable price, for every market position
C27_CostPlusEnsuresTargetMargin ==
    (ValidCostInputs /\ MarginInRange /\ Lt(I(0), calculateTotalCostPerUnit))
       => CostPlusEnsuresMargin

\* the same for the positions mid-market and premium
C27_CostPlusEnsuresTargetMarginAboveBudget ==
    (/\ ValidCostInputs
     /\ MarginInRange
     /\ Lt(I(0), calculateTotalCostPerUnit)
     /\ marketPosition # "budget")
       => CostPlusEnsuresMargin

\* budget, mid-market, premium in their order
PositionRank(position) ==
    IF position = "budget" THEN 1 ELSE IF position = "mid-market" THEN 2 ELSE 3

\* competitors and value factors with non-negative prices and scores
NonNegativeMarket ==
    /\ \A i \in DOMAIN competitors : NonNegative(competitors[i].price)
    /\ \A i \in DOMAIN valueFactors : NonNegative(valueFactors[i].score)

\* the four prices as they are computed when the position is a given one
CostPlusPriceAt(position) ==
    Mul(Mul(calculateMinimumViablePrice, Lookup(CostPlusMultipliers, position)), I(1))
CompetitorIndexedPriceAt(position) ==
    IF Len(competitors) = 0 THEN CostPlusPriceAt(position)
    ELSE MathMax(Mul(avgCompetitorPrice, Lookup(CompetitorMultipliers, position)),
                 calculateMinimumViablePrice)
ValueBasedPriceAt(position) ==
    IF Len(competitors) = 0 \/ Len(valueFactors) = 0 THEN CostPlusPriceAt(position)
    ELSE MathMax(Mul(Div(valueScore, marketValueToPrice), Lookup(ValueMultipliers, position)),
                 calculateMinimumViablePrice)
OptimalPriceAt(position) ==
    RoundToCents(Add(Add(Mul(CostPlusPriceAt(position), R(4, 10)),
                         Mul(CompetitorIndexedPriceAt(position), R(3, 10))),
                     Mul(ValueBasedPriceAt(position), R(3, 10))))

\* at the position of the model they are the prices of the model
PricesAtCurrentPosition ==
    /\ calculateCostPlusPrice(I(1)) = CostPlusPriceAt(marketPosition)
    /\ calculateCompetitorIndexedPrice = CompetitorIndexedPriceAt(marketPosition)
    /\ calculateValueBasedPrice = ValueBasedPriceAt(marketPosition)
    /\ getPriceRecommendation("optimal").price = OptimalPriceAt(marketPosition)

\* no price is lower at a higher position
PricesNotLower ==
    \A lower \in MarketPositions, higher \in MarketPositions :
        PositionRank(lower) <= PositionRank(higher) =>
           /\ Leq(CostPlusPriceAt(lower), CostPlusPriceAt(higher))
           /\ Leq(CompetitorIndexedPriceAt(lower), CompetitorIndexedPriceAt(higher))
           /\ Leq(ValueBasedPriceAt(lower), ValueBasedPriceAt(higher))
           /\ Leq(OptimalPriceAt(lower), OptimalPriceAt(higher))

\* setMarketPosition changes the position only
PositionFrame ==
    \A position \in PositionInputs :
        setMarketPosition(position) =>
           /\ UNCHANGED costVars
           /\ UNCHANGED <<competitors, valueFactors, segments, nextId>>

\* C28: with a non-negative cost per unit and non-negative competitor prices
\* and value scores, none of the cost-plus, competitor-indexed, value-based
\* and optimal prices is lower at a higher position along budget,
\* mid-market, premium, and a change of the position changes nothing else
\* in the model
C28_PositionMonotone ==
    /\ [](PricesAtCurrentPosition
          /\ ((Leq(I(0), calculateTotalCostPerUnit) /\ NonNegativeMarket) => PricesNotLower))
    /\ [][PositionFrame]_vars

\* the same where the minimum viable price and the value-based price are
\* numbers
C28_PositionMonotoneOfNumbers ==
    /\ [](PricesAtCurrentPosition
          /\ ((/\ Leq(I(0), calculateTotalCostPerUnit)
               /\ NonNegativeMarket
               /\ ~IsNaN(calculateMinimumViablePrice)
               /\ ~IsNaN(calculateValueBasedPrice)) => PricesNotLower))
    /\ [][PositionFrame]_vars

(***************************************************************************)
(* C26: interleaved scenario operations                                    *)
(***************************************************************************)
\* the scenarios mapping as it is stored now
FinalMapping == loadFromStorage("dpo_scenarios", JObj(<<>>))

BothWritten(a, b) ==
    /\ a # b
    /\ calls[a].pc = "written"
    /\ calls[b].pc = "written"

\* a had written before b loaded
Serialized(a, b) == BothWritten(a, b) /\ calls[a].writeNo < calls[b].loadNo

\* both had loaded before a wrote, and b wrote last
BothLoadedFirst(a, b) ==
    /\ BothWritten(a, b)
    /\ calls[b].loadNo < calls[a].writeNo
    /\ calls[a].writeNo < calls[b].writeNo

TwoSavesOfDifferentNames(a, b) ==
    /\ calls[a].op = "saveScenario"
    /\ calls[b].op = "saveScenario"
    /\ calls[a].name # calls[b].name

\* what the operation did is in the mapping m
HasEffect(m, call) ==
    IF call.op = "saveScenario"
    THEN Get(m, call.name) = call.scenario
    ELSE ~HasOwn(m, call.name)

\* no merge, no version check: after the last write the stored mapping is
\* the local of the operation that wrote it
LastWriteStored ==
    \A b \in Tabs :
        (calls[b].pc = "written" /\ \A a \in Tabs : calls[a].writeNo <= calls[b].writeNo)
            => FinalMapping = calls[b].local

\* serialized operations: the later one read what the earlier one wrote and
\* the effects of both are in the mapping
SerializedKeepsBoth ==
    \A a, b \in Tabs :
        Serialized(a, b) =>
            /\ calls[b].loaded = calls[a].local
            /\ HasEffect(FinalMapping, calls[b])
            /\ (calls[a].name # calls[b].name => HasEffect(FinalMapping, calls[a]))

====
